---- MODULE Spec2Model ----
(***************************************************************************)
(* A model of embedded-readline: the fixed-capacity Line, the Buffers ring *)
(* of lines (history), the LineDiff computation and its two renderers, and *)
(* the byte-driven State machine of readline().                            *)
(*                                                                         *)
(* Bytes are their numeric values.  Indices are 0-based as in the source:  *)
(* Line.data and Buffers.lines are functions on 0..N-1.  Byte slices       *)
(* (&[u8]) are TLA+ sequences.                                             *)
(***************************************************************************)
EXTENDS Integers, Sequences, FiniteSets, TLC

\* ---------------------------------------------------------------- bounds
\* MAX_LINE_LEN (const generic A of Buffers / LEN of Line)
Capacity == 2
\* MAX_LINES (const generic B of Buffers)
Depth == 2
\* sessions are started only while fewer than MaxCommits lines were committed
MaxCommits == 3
\* LEN of the lines that Line's operations are called on directly
LineLen == 3
\* the longest byte slice handed to insert_range in those calls
MaxInsert == 2
\* a deeper ring (MAX_LINES) for the sessions that edit a recalled line
DeepDepth == 3
\* and the number of lines those sessions commit at most
DeepCommits == 5

\* ------------------------------------------------------- byte constants
LF == 10
CR == 13
ESC == 27
BS == 8
DEL == 127
CtrlA == 1
CtrlE == 5
CtrlK == 11
CtrlN == 14
CtrlP == 16
CtrlW == 23
LBracket == 91
KeyA == 65
KeyB == 66
KeyC == 67
KeyD == 68
Space == 32
LetterA == 97
Zero == 0

\* The bytes the reader delivers, by the protocol state in which they arrive.
\* Literal bytes are one letter and one whitespace byte; every control byte
\* the state machine names is present.
Literals == {LetterA, Space}
Terminators == {LF, CR}
CharInputs ==
    Literals \cup Terminators \cup
    {ESC, LBracket, BS, DEL, CtrlA, CtrlE, CtrlK, CtrlN, CtrlP, CtrlW}
EscapeInputs == {LBracket, ESC, LF, CR, LetterA, KeyC}
CtrlInputs == {KeyA, KeyB, KeyC, KeyD, LetterA, Space, ESC, LBracket, LF, CR}
InputBytes(st) ==
    CASE st = "Char" -> CharInputs
      [] st = "Escape" -> EscapeInputs
      [] OTHER -> CtrlInputs

Max(a, b) == IF a >= b THEN a ELSE b
Min(a, b) == IF a <= b THEN a ELSE b
Abs(a) == IF a < 0 THEN 0 - a ELSE a
Repeat(byte, n) == [i \in 1..n |-> byte]

\* &s[start..end] of a byte slice; the caller checks start <= end <= len
Slice(s, start, end) == SubSeq(s, start + 1, end)
\* whether s[start..end] is a valid slice (otherwise indexing panics)
SliceOk(s, start, end) == 0 <= start /\ start <= end /\ end <= Len(s)

\* ------------------------------------------------------------------ Line
\* LEN, the const generic of Line<LEN>: the length of its data array
LEN(l) == Cardinality(DOMAIN l.data)

\* Line::default() of a Line<len>
DefaultLineOf(len) ==
    [data |-> [i \in 0..(len - 1) |-> Zero], cursor_index |-> 0, end_index |-> 0]

DefaultLine == DefaultLineOf(Capacity)

start_to_end(l) == [i \in 1..l.end_index |-> l.data[i - 1]]

num_after_cursor(l) == l.end_index - l.cursor_index

\* insert_range that overwrites at `at` without moving the tail up
insert_range_no_shift(l, at, d) ==
    LET n == Len(d)
    IN IF n > LEN(l) - l.end_index \/ at + n > LEN(l)
       THEN [ok |-> FALSE, n |-> 0, line |-> l]
       ELSE [ok |-> TRUE, n |-> n,
             line |->
               [data |-> [i \in DOMAIN l.data |->
                            IF i >= at /\ i < at + n THEN d[i - at + 1] ELSE l.data[i]],
                cursor_index |-> IF at <= l.cursor_index
                                 THEN l.cursor_index + n ELSE l.cursor_index,
                end_index |-> l.end_index + n]]

\* insert_range that advances the cursor wherever the bytes go
insert_range_cursor_always(l, at, d) ==
    LET n == Len(d)
    IN IF n > LEN(l) - l.end_index \/ at + n > LEN(l)
       THEN [ok |-> FALSE, n |-> 0, line |-> l]
       ELSE [ok |-> TRUE, n |-> n,
             line |->
               [data |-> [i \in DOMAIN l.data |->
                            IF i >= at /\ i < at + n THEN d[i - at + 1]
                            ELSE IF i >= at + n /\ i < l.end_index + n THEN l.data[i - n]
                            ELSE l.data[i]],
                cursor_index |-> l.cursor_index + n,
                end_index |-> l.end_index + n]]

\* Line::insert_range: [ok, n, line]
insert_range(l, at, d) ==
    LET n == Len(d)
        space_remaining == LEN(l) - l.end_index
    IN IF n > space_remaining THEN [ok |-> FALSE, n |-> 0, line |-> l]
       ELSE IF at + n > LEN(l) THEN [ok |-> FALSE, n |-> 0, line |-> l]
       ELSE [ok |-> TRUE, n |-> n,
             line |->
               [data |-> [i \in DOMAIN l.data |->
                            IF i >= at /\ i < at + n THEN d[i - at + 1]
                            ELSE IF i >= at + n /\ i < l.end_index + n THEN l.data[i - n]
                            ELSE l.data[i]],
                cursor_index |-> IF at <= l.cursor_index
                                 THEN l.cursor_index + n ELSE l.cursor_index,
                end_index |-> l.end_index + n]]

\* remove_range that sends a cursor at or after range.start to range.start
remove_range_snap_always(l, rs, re) ==
    IF re > l.end_index THEN [ok |-> FALSE, n |-> 0, line |-> l]
    ELSE LET n == re - rs
         IN [ok |-> TRUE, n |-> n,
             line |->
               [data |-> [i \in DOMAIN l.data |->
                            IF i >= rs /\ i < rs + (l.end_index - re)
                            THEN l.data[i + n] ELSE l.data[i]],
                cursor_index |-> IF rs <= l.cursor_index THEN rs ELSE l.cursor_index,
                end_index |-> l.end_index - n]]

\* Line::remove_range with the cursor left where it was
remove_range_keep_cursor(l, rs, re) ==
    IF re > l.end_index THEN [ok |-> FALSE, n |-> 0, line |-> l]
    ELSE LET n == re - rs
         IN [ok |-> TRUE, n |-> n,
             line |->
               [data |-> [i \in DOMAIN l.data |->
                            IF i >= rs /\ i < rs + (l.end_index - re)
                            THEN l.data[i + n] ELSE l.data[i]],
                cursor_index |-> l.cursor_index,
                end_index |-> l.end_index - n]]

\* Line::remove_range of rs..re (rs <= re): [ok, n, line]
remove_range(l, rs, re) ==
    IF re > l.end_index THEN [ok |-> FALSE, n |-> 0, line |-> l]
    ELSE LET n == re - rs
         IN [ok |-> TRUE, n |-> n,
             line |->
               [data |-> [i \in DOMAIN l.data |->
                            IF i >= rs /\ i < rs + (l.end_index - re)
                            THEN l.data[i + n] ELSE l.data[i]],
                cursor_index |-> IF re <= l.cursor_index THEN l.cursor_index - n
                                 ELSE IF rs <= l.cursor_index THEN rs
                                 ELSE l.cursor_index,
                end_index |-> l.end_index - n]]

\* set_from_cursor that takes the cursor and the end but not the bytes
set_from_cursor_no_data(self, from) ==
    [self EXCEPT !.cursor_index = from.cursor_index, !.end_index = from.end_index]

\* Line::set_from_cursor: self takes from's bytes [0,end), cursor and end
set_from_cursor(self, from) ==
    [data |-> [i \in DOMAIN self.data |->
                 IF i < from.end_index THEN from.data[i] ELSE self.data[i]],
     cursor_index |-> from.cursor_index,
     end_index |-> from.end_index]

set_cursor_index(l, c) == [l EXCEPT !.cursor_index = c]
set_end_index(l, e) == [l EXCEPT !.end_index = e]

\* a move_cursor that clamps to the array's length instead of end_index
move_cursor_line_clamp_len(l, by) ==
    LET new_cursor_index == Min(Max(l.cursor_index + by, 0), LEN(l))
    IN [line |-> [l EXCEPT !.cursor_index = new_cursor_index],
        moved |-> new_cursor_index - l.cursor_index]

\* Line::move_cursor: [line, moved]
move_cursor_line(l, by) ==
    LET new_cursor_index == Min(Max(l.cursor_index + by, 0), l.end_index)
    IN [line |-> [l EXCEPT !.cursor_index = new_cursor_index],
        moved |-> new_cursor_index - l.cursor_index]

\* Option<u8>: None, or the byte; reading data[LEN] is an index panic
NoneByte == -1
PanicByte == -2
at_cursor(l, by) ==
    LET idx == l.cursor_index + by
    IN IF idx < 0 \/ idx > l.end_index THEN NoneByte
       ELSE IF idx >= LEN(l) THEN PanicByte
       ELSE l.data[idx]

\* a clear that leaves the line as it is
clear_nothing(l) == l

clear(l) == set_end_index(set_cursor_index(l, 0), 0)

\* u8::is_ascii_whitespace: space, tab, line feed, form feed, carriage return
is_ascii_whitespace(c) == c \in {32, 9, 10, 12, 13}

\* util::previous_word_cursor_position, first loop: rewind past spaces
RECURSIVE rewind_spaces(_)
rewind_spaces(l) ==
    LET c == at_cursor(l, -1)
    IN IF c = NoneByte THEN l
       ELSE IF ~is_ascii_whitespace(c) \/ l.cursor_index = 0 THEN l
       ELSE rewind_spaces(move_cursor_line(l, -1).line)

\* second loop: find the start of the word
RECURSIVE rewind_word(_)
rewind_word(l) ==
    LET c == at_cursor(l, -1)
    IN IF c = NoneByte THEN l
       ELSE IF is_ascii_whitespace(c) \/ l.cursor_index = 0 THEN l
       ELSE rewind_word(move_cursor_line(l, -1).line)

\* previous_word_cursor_position without its first loop
previous_word_skip_no_spaces(l) == rewind_word(l)

previous_word_cursor_position(l) == rewind_word(rewind_spaces(l))

\* -------------------------------------------------------------- LineDiff
\* Option<Range<usize>>: NoRange is None, <<s, e>> is Some(s..e)
NoRange == <<>>
RangeLen(r) == IF r = NoRange THEN 0 ELSE Max(r[2] - r[1], 0)

LineDiff(mcb, w, clr, mca) ==
    [move_caret_before |-> mcb, write_after_prefix |-> w,
     clear_after_prefix |-> clr, move_caret_after |-> mca]

EmptyDiff == LineDiff(0, NoRange, 0, 0)

\* the zip loop of calc_line_diff: length of the common prefix
RECURSIVE prefix_from(_, _, _)
prefix_from(old_data, new_data, i) ==
    IF i < Len(old_data) /\ i < Len(new_data) /\ old_data[i + 1] = new_data[i + 1]
    THEN prefix_from(old_data, new_data, i + 1)
    ELSE i

\* calc_line_diff that blanks everything the old line had after the prefix
calc_line_diff_clear_from_prefix(old_line, new_line) ==
    LET old_data == start_to_end(old_line)
        new_data == start_to_end(new_line)
        prefix_length == prefix_from(old_data, new_data, 0)
        w == IF prefix_length = Len(new_data) THEN NoRange
             ELSE <<prefix_length, Len(new_data)>>
        clr == IF Len(old_data) > Len(new_data) THEN Len(old_data) - prefix_length ELSE 0
        move_caret_before == prefix_length - old_line.cursor_index
        cursor_moved_by == new_line.cursor_index - old_line.cursor_index
    IN LineDiff(move_caret_before, w, clr,
                (0 - (move_caret_before + RangeLen(w) + clr)) + cursor_moved_by)

\* calc_line_diff whose final caret move forgets the move made before
calc_line_diff_forget_before(old_line, new_line) ==
    LET old_data == start_to_end(old_line)
        new_data == start_to_end(new_line)
        prefix_length == prefix_from(old_data, new_data, 0)
        w == IF prefix_length = Len(new_data) THEN NoRange
             ELSE <<prefix_length, Len(new_data)>>
        clr == IF Len(old_data) > Len(new_data)
               THEN IF prefix_length = Len(new_data)
                    THEN Len(old_data) - prefix_length
                    ELSE Len(old_data) - Len(new_data)
               ELSE 0
        move_caret_before == prefix_length - old_line.cursor_index
        cursor_moved_by == new_line.cursor_index - old_line.cursor_index
    IN LineDiff(move_caret_before, w, clr,
                (0 - (RangeLen(w) + clr)) + cursor_moved_by)

\* calc_line_diff with the first branch (nothing to write) dropped
calc_line_diff_always_write(old_line, new_line) ==
    LET old_data == start_to_end(old_line)
        new_data == start_to_end(new_line)
        prefix_length == prefix_from(old_data, new_data, 0)
        w == <<prefix_length, Len(new_data)>>
        clr == Max(Len(old_data) - Len(new_data), 0)
        move_caret_before == prefix_length - old_line.cursor_index
        cursor_moved_by == new_line.cursor_index - old_line.cursor_index
    IN LineDiff(move_caret_before, w, clr,
                (0 - (move_caret_before + RangeLen(w) + clr)) + cursor_moved_by)

calc_line_diff(old_line, new_line) ==
    LET old_data == start_to_end(old_line)
        new_data == start_to_end(new_line)
        prefix_length == prefix_from(old_data, new_data, 0)
        wc == IF Len(old_data) = Len(new_data) /\ prefix_length = Len(new_data)
              THEN <<NoRange, 0>>
              ELSE IF Len(old_data) > Len(new_data)
              THEN IF prefix_length = Len(new_data)
                   THEN <<NoRange, Len(old_data) - prefix_length>>
                   ELSE <<(<<prefix_length, Len(new_data)>>),
                          Len(old_data) - Len(new_data)>>
              ELSE <<(<<prefix_length, Len(new_data)>>), 0>>
        write_after_prefix == wc[1]
        clear_after_prefix == wc[2]
        old_line_index == old_line.cursor_index
        move_caret_before == prefix_length - old_line_index
        cursor_moved_by == new_line.cursor_index - old_line.cursor_index
        write_after_prefix_len == RangeLen(write_after_prefix)
        move_caret_after ==
            (0 - (move_caret_before + write_after_prefix_len + clear_after_prefix))
            + cursor_moved_by
    IN LineDiff(move_caret_before, write_after_prefix, clear_after_prefix,
                move_caret_after)

\* A renderer's run: the bytes handed to the writer, and whether it panicked
\* (bytes written before the panic stay written).
Emitted(bytes) == [bytes |-> bytes, panic |-> FALSE]
Panicked == [bytes |-> <<>>, panic |-> TRUE]
Then(r1, r2) ==
    IF r1.panic THEN r1 ELSE [bytes |-> r1.bytes \o r2.bytes, panic |-> r2.panic]

\* line_data[start..end] handed to the writer; an invalid range panics
WriteSlice(line_data, start, end) ==
    IF SliceOk(line_data, start, end) THEN Emitted(Slice(line_data, start, end))
    ELSE Panicked

\* LineDiff::apply (line_diff.rs), on a writer that accepts every byte
LineDiff_apply(diff, new_line) ==
    LET cursor_index == new_line.cursor_index
        line_data == start_to_end(new_line)
        before ==
            IF diff.move_caret_before < 0
            THEN Emitted(Repeat(BS, Abs(diff.move_caret_before)))
            ELSE IF diff.move_caret_before > 0
            THEN WriteSlice(line_data, cursor_index,
                            cursor_index + Abs(diff.move_caret_before))
            ELSE Emitted(<<>>)
        write ==
            IF diff.write_after_prefix = NoRange THEN Emitted(<<>>)
            ELSE WriteSlice(line_data, diff.write_after_prefix[1],
                            diff.write_after_prefix[2])
        spaces == Emitted(Repeat(Space, diff.clear_after_prefix))
        after ==
            IF diff.move_caret_after <= 0
            THEN Emitted(Repeat(BS, Abs(diff.move_caret_after)))
            ELSE Panicked
    IN Then(Then(Then(before, write), spaces), after)

\* State::apply_line_diff (readline.rs): line is buffers.current_line().
\* cursor_index - move_caret is a usize subtraction: below zero it panics
\* (overflow checks on) or wraps to a start beyond the end, and the slice panics.
apply_line_diff(line_diff, line) ==
    LET line_data == start_to_end(line)
        before ==
            IF line_diff.move_caret_before < 0
            THEN Emitted(Repeat(BS, Abs(line_diff.move_caret_before)))
            ELSE IF line_diff.move_caret_before > 0
            THEN LET move_caret == Abs(line_diff.move_caret_before)
                     cursor_index == line.cursor_index
                 IN IF cursor_index - move_caret < 0 THEN Panicked
                    ELSE WriteSlice(line_data, cursor_index - move_caret, move_caret)
            ELSE Emitted(<<>>)
        write ==
            IF line_diff.write_after_prefix = NoRange THEN Emitted(<<>>)
            ELSE WriteSlice(line_data, line_diff.write_after_prefix[1],
                            line_diff.write_after_prefix[2])
        spaces == Emitted(Repeat(Space, line_diff.clear_after_prefix))
        after ==
            IF line_diff.move_caret_after < 0
            THEN Emitted(Repeat(BS, Abs(line_diff.move_caret_after)))
            ELSE IF line_diff.move_caret_after > 0 THEN Panicked
            ELSE Emitted(<<>>)
    IN Then(Then(Then(before, write), spaces), after)

\* --------------------------------------------------------------- terminal
\* The remote terminal's line: its cells up to the last one that is not blank
\* (cells are blank until written, and a written space is a blank) and the
\* cursor column.  0x08 moves one column left (not past column 0); every
\* other byte overwrites the cell at the cursor and advances by one.
EmptyTerm == [cells |-> <<>>, col |-> 0]

RECURSIVE StripBlanks(_)
StripBlanks(cells) ==
    IF cells # <<>> /\ cells[Len(cells)] = Space
    THEN StripBlanks(SubSeq(cells, 1, Len(cells) - 1))
    ELSE cells

TermByte(t, byte) ==
    IF byte = BS THEN [t EXCEPT !.col = Max(t.col - 1, 0)]
    ELSE [cells |-> StripBlanks([i \in 1..Max(Len(t.cells), t.col + 1) |->
                                   IF i = t.col + 1 THEN byte
                                   ELSE IF i <= Len(t.cells) THEN t.cells[i]
                                   ELSE Space]),
          col |-> t.col + 1]

RECURSIVE TermReplay(_, _)
TermReplay(t, bytes) ==
    IF bytes = <<>> THEN t
    ELSE TermReplay(TermByte(t, Head(bytes)), Tail(bytes))

TermCell(t, i) == IF i < Len(t.cells) THEN t.cells[i + 1] ELSE Space
LineCell(l, i) == IF i < l.end_index THEN l.data[i] ELSE Space

\* the terminal shows l's bytes [0,end) followed only by blanks
TermShowsContent(t, l) ==
    \A i \in 0..(Max(Len(t.cells), l.end_index) - 1) : TermCell(t, i) = LineCell(l, i)

TermShows(t, l) == TermShowsContent(t, l) /\ t.col = l.cursor_index

\* a terminal that shows line l with its cursor at l's cursor
TermOf(l) == [cells |-> StripBlanks(start_to_end(l)), col |-> l.cursor_index]

\* ---------------------------------------------------------------- Buffers
\* b is [lines, last_idx, offset]
\* B, the const generic of Buffers<A, B>: the length of its lines array
MAX_LINES(b) == Cardinality(DOMAIN b.lines)

selected_idx(b) == (b.last_idx - b.offset) % MAX_LINES(b)

current_line(b) == b.lines[selected_idx(b)]

\* prepare_to_change_line that reselects the in-progress slot without the copy
prepare_to_change_line_no_copy(b) == [b EXCEPT !.offset = 0]

prepare_to_change_line(b) ==
    LET from_idx == selected_idx(b)
        b0 == [b EXCEPT !.offset = 0]
        to_idx == selected_idx(b0)
    IN IF from_idx # to_idx
       THEN [b0 EXCEPT !.lines[to_idx] = set_from_cursor(b.lines[to_idx], b.lines[from_idx])]
       ELSE b0

WithCurrent(b, l) == [b EXCEPT !.lines[selected_idx(b)] = l]

\* ---------------------------------------------------------------- Buffers
\* insert_chars whose diff rewrites the line from its start
insert_chars_write_all(b, c) ==
    LET b1 == [b EXCEPT !.offset = 0]
        line == current_line(b1)
        line2 == insert_range(line, line.cursor_index, c).line
    IN [b |-> WithCurrent(b1, line2),
        diff |-> LineDiff(0, <<0, line2.end_index>>, 0, 0 - num_after_cursor(line2))]

\* each edit returns [b, diff]
insert_chars(b, c) ==
    LET b1 == prepare_to_change_line(b)
        line == current_line(b1)
        cursor_index == line.cursor_index
        line2 == insert_range(line, cursor_index, c).line
    IN [b |-> WithCurrent(b1, line2),
        diff |-> LineDiff(0, <<cursor_index, line2.end_index>>, 0,
                          0 - num_after_cursor(line2))]

\* delete_chars whose diff never rewrites the bytes after the cursor
delete_chars_no_rewrite(b, n0) ==
    LET b1 == prepare_to_change_line(b)
        line == current_line(b1)
        cursor_index == line.cursor_index
    IN IF cursor_index = 0 THEN [b |-> b1, diff |-> EmptyDiff]
       ELSE LET n == Min(n0, cursor_index)
                after_cursor == num_after_cursor(line)
                removed == remove_range(line, cursor_index - n, cursor_index)
            IN [b |-> WithCurrent(b1, removed.line),
                diff |-> LineDiff(0 - removed.n, NoRange, removed.n,
                                  0 - (removed.n + after_cursor))]

delete_chars(b, n0) ==
    LET b1 == prepare_to_change_line(b)
        line == current_line(b1)
        cursor_index == line.cursor_index
    IN IF cursor_index = 0 THEN [b |-> b1, diff |-> EmptyDiff]
       ELSE LET n == Min(n0, cursor_index)
                after_cursor == num_after_cursor(line)
                removed == remove_range(line, cursor_index - n, cursor_index)
                line2 == removed.line
                num_removed == removed.n
                write_after_prefix ==
                    IF after_cursor = 0 THEN NoRange
                    ELSE <<line2.cursor_index, line2.end_index>>
            IN [b |-> WithCurrent(b1, line2),
                diff |-> LineDiff(0 - num_removed, write_after_prefix, num_removed,
                                  0 - (num_removed + after_cursor))]

delete_word(b) ==
    LET b1 == prepare_to_change_line(b)
        line == current_line(b1)
        old_cursor_index == line.cursor_index
        line1 == previous_word_cursor_position(line)
        num_removed == old_cursor_index - line1.cursor_index
        line2 == set_cursor_index(line1, old_cursor_index)
    IN delete_chars(WithCurrent(b1, line2), num_removed)

\* select_prev_line without the test offset < last_idx
select_prev_line_unguarded(b) ==
    LET b2 == [b EXCEPT !.offset = b.offset + 1]
    IN [b |-> b2, diff |-> calc_line_diff(current_line(b), current_line(b2))]

select_prev_line(b) ==
    LET old == current_line(b)
        b1 == IF b.offset < b.last_idx THEN [b EXCEPT !.offset = b.offset + 1] ELSE b
    IN [b |-> b1, diff |-> calc_line_diff(old, current_line(b1))]

\* select_next_line that first makes the in-progress slot the selected line
select_next_line_prepared(b) ==
    LET b0 == prepare_to_change_line(b)
    IN [b |-> b0, diff |-> calc_line_diff(current_line(b), current_line(b0))]

select_next_line(b) ==
    LET old == current_line(b)
        b1 == IF b.offset > 0 THEN [b EXCEPT !.offset = b.offset - 1] ELSE b
    IN [b |-> b1, diff |-> calc_line_diff(old, current_line(b1))]

\* push_history without the copy into the in-progress slot
push_history_no_prepare(b) ==
    [b |-> [b EXCEPT !.last_idx = b.last_idx + 1], line |-> current_line(b)]

\* [b, line]: line is the returned (committed) line
push_history(b) ==
    LET b1 == prepare_to_change_line(b)
        line == current_line(b1)
    IN [b |-> [b1 EXCEPT !.last_idx = b1.last_idx + 1], line |-> line]

\* delete_to_end that blanks as many cells as the line had bytes
delete_to_end_clear_all(b) ==
    LET b1 == prepare_to_change_line(b)
        line == current_line(b1)
    IN [b |-> WithCurrent(b1, set_end_index(line, line.cursor_index)),
        diff |-> LineDiff(0, NoRange, line.end_index, 0 - line.end_index)]

delete_to_end(b) ==
    LET b1 == prepare_to_change_line(b)
        line == current_line(b1)
        cursor_index == line.cursor_index
        end_index == line.end_index
        num_to_clear == end_index - cursor_index
    IN [b |-> WithCurrent(b1, set_end_index(line, cursor_index)),
        diff |-> LineDiff(0, NoRange, num_to_clear, 0 - num_to_clear)]

\* move_cursor that first makes the in-progress slot the selected line
move_cursor_prepared(b, by) ==
    LET b1 == prepare_to_change_line(b)
        moved == move_cursor_line(current_line(b1), by)
    IN [b |-> WithCurrent(b1, moved.line),
        diff |-> LineDiff(moved.moved, NoRange, 0, 0)]

move_cursor(b, by) ==
    LET moved == move_cursor_line(current_line(b), by)
    IN [b |-> WithCurrent(b, moved.line),
        diff |-> LineDiff(moved.moved, NoRange, 0, 0)]

cursor_to_end(b) == move_cursor(b, num_after_cursor(current_line(b)))

cursor_to_start(b) == move_cursor(b, 0 - current_line(b).cursor_index)

\* ------------------------------------------------------------------ State
\* State::apply_diff: the edit's result r = [b, diff] rendered on the writer
apply_diff(r, st) ==
    LET run == apply_line_diff(r.diff, current_line(r.b))
    IN [kind |-> IF run.panic THEN "Panic" ELSE "Continue", err |-> "none",
        arg |-> NoneByte, status |-> st, b |-> r.b, bytes |-> run.bytes]

NoEdit(kind, err, st, b) ==
    [kind |-> kind, err |-> err, arg |-> NoneByte, status |-> st, b |-> b,
     bytes |-> <<>>]

\* the arm (byte, Escape) taken as a stray byte to skip
unexpected_char_skipped(byte, st, b) == NoEdit("Continue", "none", "Char", b)

\* the arm (byte, Escape): Err(UnexpectedChar(byte))
unexpected_char(byte, st, b) ==
    [NoEdit("Err", "UnexpectedChar", st, b) EXCEPT !.arg = byte]

\* handle_control that takes an unknown byte for a cursor-left key
handle_control_default_left(byte, b) ==
    CASE byte = KeyA -> apply_diff(select_prev_line(b), "Char")
      [] byte = KeyB -> apply_diff(select_next_line(b), "Char")
      [] byte = KeyC -> apply_diff(move_cursor(b, 1), "Char")
      [] OTHER -> apply_diff(move_cursor(b, -1), "Char")

\* State::handle_control, and the return to status Char that follows it
handle_control(byte, b) ==
    CASE byte = KeyA -> apply_diff(select_prev_line(b), "Char")
      [] byte = KeyB -> apply_diff(select_next_line(b), "Char")
      [] byte = KeyC -> apply_diff(move_cursor(b, 1), "Char")
      [] byte = KeyD -> apply_diff(move_cursor(b, -1), "Char")
      [] OTHER -> NoEdit("Continue", "none", "Char", b)

\* State::process_byte: the match arms, tried in order
process_byte(byte, st, b) ==
    IF byte = LF \/ byte = CR THEN NoEdit("Break", "none", st, b)
    ELSE IF byte = ESC /\ st = "Char" THEN NoEdit("Continue", "none", "Escape", b)
    ELSE IF byte = ESC THEN NoEdit("Err", "UnexpectedEscape", st, b)
    ELSE IF byte = LBracket /\ st = "Escape" THEN NoEdit("Continue", "none", "Ctrl", b)
    ELSE IF byte = LBracket THEN NoEdit("Err", "UnexpectedCtrl", st, b)
    ELSE IF (byte = BS \/ byte = DEL) /\ st = "Char"
         THEN apply_diff(delete_chars(b, 1), st)
    ELSE IF byte = CtrlA /\ st = "Char" THEN apply_diff(cursor_to_start(b), st)
    ELSE IF byte = CtrlE /\ st = "Char" THEN apply_diff(cursor_to_end(b), st)
    ELSE IF byte = CtrlK /\ st = "Char" THEN apply_diff(delete_to_end(b), st)
    ELSE IF byte = CtrlN /\ st = "Char" THEN apply_diff(select_next_line(b), st)
    ELSE IF byte = CtrlP /\ st = "Char" THEN apply_diff(select_prev_line(b), st)
    ELSE IF byte = CtrlW /\ st = "Char" THEN apply_diff(delete_word(b), st)
    ELSE IF st = "Char" THEN apply_diff(insert_chars(b, <<byte>>), st)
    ELSE IF st = "Escape" THEN unexpected_char(byte, st, b)
    ELSE handle_control(byte, b)

\* core::str::from_utf8(ret) succeeds.  Exact for the bytes of this model:
\* a byte below 0x80 is valid anywhere, and no literal is a lead or
\* continuation byte of a multi-byte sequence.
from_utf8_ok(bytes) == \A i \in 1..Len(bytes) : bytes[i] < 128

\* ------------------------------------------------------------------ state
VARIABLES
    lines,      \* Buffers.lines: [0..Depth-1 -> Line]
    last_idx,   \* Buffers.last_idx
    offset,     \* Buffers.offset
    status,     \* State.status: "Char", "Escape", "Ctrl"
    sess,       \* "idle": no readline() in flight; "running"; "panicked"
    res,        \* result of the last State::readline: "none", "Ok" or the error
    closed,     \* the transport is closed: every read reports 0 bytes
    resByte,    \* the byte an UnexpectedChar error carries, else NoneByte
    ret,        \* the bytes the last successful session returned
    term,       \* the terminal after replaying every byte written this session
    echo,       \* observer: the bytes typed and written in a plain session
    ev,         \* observer: what the last processed byte was, if of note
    scn,        \* observer: progress of previous / insert / next on a recalled line
    committed,  \* observer: the last Depth returned lines, newest first
    recall,     \* observer: progress of recall / type / commit / recall twice
    onlyPrev,   \* observer: this session has only pressed select-previous so far
    wire,       \* observer: the bytes offered to the writer in the last turn
                \* and the bytes a transport with short writes took of them
    pair,       \* a pair of lines [old, new] handed to the diff engine
    applied,    \* the diff of pair, its rendering and the terminal afterwards
    call,       \* an operation of Line or Buffers and the inputs it is called on
    result      \* what that call returned and left behind

coreVars == <<lines, last_idx, offset, status, sess, res, resByte, ret, term, closed>>
obsVars == <<echo, scn, ev>>
wrapVars == <<committed, onlyPrev, recall, wire>>
diffVars == <<pair, applied, call, result>>
vars == <<coreVars, obsVars, wrapVars, diffVars>>

Bufs == [lines |-> lines, last_idx |-> last_idx, offset |-> offset]

\* ------------------------------------------------------------ observers
EchoOff == [on |-> FALSE, typed |-> <<>>, out |-> <<>>]
EchoStart == [on |-> TRUE, typed |-> <<>>, out |-> <<>>]

\* letters, digits and spaces among the input bytes
PlainBytes == {LetterA, Space}

\* the session stays plain while at most Capacity plain bytes were typed and
\* nothing else but the line terminator
EchoNext(byte, bytes) ==
    IF echo.on /\ byte \in PlainBytes /\ Len(echo.typed) < LEN(current_line(Bufs))
    THEN [on |-> TRUE, typed |-> Append(echo.typed, byte), out |-> echo.out \o bytes]
    ELSE IF echo.on /\ byte \in Terminators
    THEN [echo EXCEPT !.out = echo.out \o bytes]
    ELSE EchoOff

ScnOff == [phase |-> 0, w |-> <<>>, h |-> <<>>, exp |-> <<>>]

\* h with byte x inserted at position c
InsertedAt(h, c, x) == SubSeq(h, 1, c) \o <<x>> \o SubSeq(h, c + 1, Len(h))

\* phase 1: with one committed line h and another line w in progress, select-previous (0x10)
\* went from the in-progress line to h; phase 2: then a literal byte arrived
\* (h leaves room for it); phase 3: then select-next (0x0E)
ScnNext(byte, kind) ==
    LET cur == current_line(Bufs)
        h == lines[0]
    IN IF kind # "Continue" \/ status # "Char" THEN ScnOff
       ELSE IF byte = CtrlP /\ offset = 0 /\ last_idx = 1 /\ MAX_LINES(Bufs) >= 2
               /\ cur.end_index > 0 /\ h.end_index > 0
               /\ start_to_end(cur) # start_to_end(h)
       THEN [phase |-> 1, w |-> start_to_end(cur), h |-> start_to_end(h),
             exp |-> <<>>]
       ELSE IF scn.phase = 1 /\ byte \in Literals /\ cur.end_index < LEN(cur)
       THEN [scn EXCEPT !.phase = 2,
                        !.exp = InsertedAt(start_to_end(cur), cur.cursor_index, byte)]
       ELSE IF scn.phase = 2 /\ byte = CtrlN
       THEN [scn EXCEPT !.phase = 3]
       ELSE ScnOff

\* the bytes that state Ctrl neither acts on nor rejects
UnknownCtrlBytes == CtrlInputs \ ({KeyA, KeyB, KeyC, KeyD, ESC, LBracket} \cup Terminators)

\* the byte is a select-previous key (0x10, or 'A' ending ESC [ A)
IsSelectPrev(byte) ==
    \/ status = "Char" /\ byte = CtrlP
    \/ status = "Ctrl" /\ byte = KeyA

\* the byte is a select-next key (0x0E, or 'B' ending ESC [ B)
IsSelectNext(byte) ==
    \/ status = "Char" /\ byte = CtrlN
    \/ status = "Ctrl" /\ byte = KeyB

\* the byte changes the content of the line: a literal, backspace/delete,
\* delete-word or delete-to-end
IsContentEdit(byte) ==
    status = "Char" /\ byte \in Literals \cup {BS, DEL, CtrlW, CtrlK}

\* the byte only moves the cursor: 0x01, 0x05, or 'C' / 'D' ending an arrow
IsCursorMove(byte) ==
    \/ status = "Char" /\ byte \in {CtrlA, CtrlE}
    \/ status = "Ctrl" /\ byte \in {KeyC, KeyD}

\* "restarted": the session began after one that ended without a commit and
\* left bytes in the selected line;
\* "ignored": the byte was an unknown control-sequence byte in state Ctrl;
\* "prev_at_oldest" / "next_at_newest": a select-previous key arrived with
\* offset = last_idx, a select-next key with offset = 0;
\* "edit_recalled" / "move_recalled": a content edit or a cursor move arrived
\* while a history entry was selected (offset > 0)
EvNext(byte) ==
    IF status = "Ctrl" /\ byte \in UnknownCtrlBytes THEN "ignored"
    ELSE IF IsSelectPrev(byte) /\ offset = last_idx THEN "prev_at_oldest"
    ELSE IF IsSelectNext(byte) /\ offset = 0 THEN "next_at_newest"
    ELSE IF IsContentEdit(byte) /\ offset > 0 THEN "edit_recalled"
    ELSE IF IsCursorMove(byte) /\ offset > 0 THEN "move_recalled"
    ELSE "none"

Take(s, n) == SubSeq(s, 1, Min(Len(s), n))

\* the bytes of the two select-previous keys: 0x10, and ESC [ A
IsPrevKeyByte(byte) ==
    \/ status = "Char" /\ byte \in {CtrlP, ESC}
    \/ status = "Escape" /\ byte = LBracket
    \/ status = "Ctrl" /\ byte = KeyA

\* ---------------------------------------------------------------- actions
WireOff == [sent |-> <<>>, got |-> <<>>]
NoCall == [op |-> "none"]
NoResult == [done |-> FALSE]
NoPair == [old |-> DefaultLine, new |-> DefaultLine]
NotApplied ==
    [done |-> FALSE, diff |-> EmptyDiff, run |-> Emitted(<<>>), term |-> EmptyTerm]

\* Buffers::<len, depth>::default() and no session yet
InitSized(len, depth) ==
    /\ lines = [i \in 0..(depth - 1) |-> DefaultLineOf(len)]
    /\ last_idx = 0
    /\ offset = 0
    /\ status = "Char"
    /\ sess = "idle"
    /\ res = "none"
    /\ resByte = NoneByte
    /\ closed = FALSE
    /\ ret = <<>>
    /\ term = EmptyTerm
    /\ echo = EchoOff
    /\ scn = ScnOff
    /\ ev = "none"
    /\ committed = <<>>
    /\ onlyPrev = FALSE
    /\ recall = [phase |-> 0, L |-> <<>>, b |-> <<>>]
    /\ wire = WireOff

InitCore == InitSized(Capacity, Depth)

Init ==
    /\ InitCore
    /\ pair = NoPair
    /\ applied = NotApplied
    /\ call = NoCall
    /\ result = NoResult

\* readline(): a State in status Char is built over the caller's Buffers and
\* State::readline clears the current line before it reads the first byte.
\* The session starts on an empty terminal line.
StartSession ==
    /\ sess = "idle"
    /\ sess' = "running"
    /\ status' = "Char"
    /\ lines' = [lines EXCEPT ![selected_idx(Bufs)] = clear(lines[selected_idx(Bufs)])]
    /\ res' = "none"
    /\ resByte' = NoneByte
    /\ ret' = <<>>
    /\ term' = EmptyTerm
    /\ echo' = EchoStart
    /\ scn' = ScnOff
    /\ ev' = IF res \notin {"none", "Ok"} /\ current_line(Bufs).end_index > 0
             THEN "restarted" ELSE "none"
    /\ UNCHANGED <<last_idx, offset, closed, diffVars>>

\* State::read_byte: the buffer [0] is handed to read and its first byte is
\* returned whatever count read reports, so a read of 0 bytes yields 0
read_byte(count, delivered) == IF count = 0 THEN Zero ELSE delivered

\* One turn of the loop of State::readline on the byte read_byte returned:
\* process_byte, and on Loop::Break push_history and the conversion of the
\* line to &str.
LoopTurn(byte) ==
    /\ sess = "running"
    /\ \E r \in {process_byte(byte, status, Bufs)} :
       LET ph == push_history(r.b)
           b2 == IF r.kind = "Break" THEN ph.b ELSE r.b
       IN /\ lines' = b2.lines
          /\ last_idx' = b2.last_idx
          /\ offset' = b2.offset
          /\ status' = r.status
          /\ term' = TermReplay(term, r.bytes)
          /\ res' = CASE r.kind = "Break" -> "Ok"
                      [] r.kind = "Err" -> r.err
                      [] OTHER -> "none"
          /\ resByte' = r.arg
          /\ ret' = IF r.kind = "Break" THEN start_to_end(ph.line) ELSE <<>>
          /\ sess' = CASE r.kind = "Continue" -> "running"
                       [] r.kind = "Panic" -> "panicked"
                       [] r.kind = "Err" -> "idle"
                       [] OTHER -> IF from_utf8_ok(start_to_end(ph.line))
                                   THEN "idle" ELSE "panicked"
          /\ echo' = EchoNext(byte, r.bytes)
          /\ scn' = ScnNext(byte, r.kind)
          /\ ev' = EvNext(byte)
    /\ UNCHANGED <<closed, diffVars>>

\* a turn of the loop in which the open transport delivers one byte
ProcessByte(byte) ==
    /\ ~closed
    /\ byte \in InputBytes(status)
    /\ (byte \in Terminators) => last_idx < MaxCommits
    /\ LoopTurn(read_byte(1, byte))

AllInputs == CharInputs \cup EscapeInputs \cup CtrlInputs

Next ==
    \/ StartSession /\ UNCHANGED wrapVars
    \/ \E byte \in AllInputs : ProcessByte(byte) /\ UNCHANGED wrapVars

Spec == Init /\ [][Next]_vars

\* ------------------------------------- committing and recalling lines
\* Sessions that type one letter, commit, and press select-previous (0x10 or
\* ESC [ A), observed: committed is the log of the lines returned, onlyPrev
\* whether the session began on the in-progress line and has only pressed
\* select-previous since.
WrapInputs == {LetterA, Space, LF, CtrlP, ESC, LBracket, KeyA}

WrapStart ==
    /\ StartSession
    /\ onlyPrev' = (offset = 0)
    /\ UNCHANGED <<committed, recall, wire>>

WrapByte(byte) ==
    /\ ProcessByte(byte)
    /\ committed' = IF res' = "Ok" THEN Take(<<ret'>> \o committed, MAX_LINES(Bufs))
                    ELSE committed
    /\ onlyPrev' = (onlyPrev /\ sess' = "running" /\ IsPrevKeyByte(byte))
    /\ UNCHANGED <<recall, wire>>

NextWrap ==
    \/ WrapStart
    \/ \E byte \in WrapInputs : WrapByte(byte)

SpecWrap == Init /\ [][NextWrap]_vars

\* ------------------------------------------------- the diff engine alone
\* Line::from_u8 on a Line<len>, then set_cursor_index
LineOfLen(len, bytes, cursor) ==
    [data |-> [i \in 0..(len - 1) |-> IF i < Len(bytes) THEN bytes[i + 1] ELSE Zero],
     cursor_index |-> cursor,
     end_index |-> Len(bytes)]

\* Line::from_u8 followed by set_cursor_index, as the tests build lines
LineOf(bytes, cursor) ==
    [data |-> [i \in 0..(Capacity - 1) |->
                 IF i < Len(bytes) THEN bytes[i + 1] ELSE Zero],
     cursor_index |-> cursor,
     end_index |-> Len(bytes)]

Contents == UNION {[1..n -> Literals] : n \in 0..Capacity}
AllLines == {LineOf(bytes, c) : bytes \in Contents, c \in 0..Capacity}
WellFormedLines == {l \in AllLines : l.cursor_index <= l.end_index}

\* test_calc_diff1: Line<10> "hello" and "heck", both with the cursor at 0
HelloHeck ==
    [old |-> LineOfLen(10, <<104, 101, 108, 108, 111>>, 0),
     new |-> LineOfLen(10, <<104, 101, 99, 107>>, 0)]

InitDiff ==
    /\ InitCore
    /\ pair \in [old : WellFormedLines, new : WellFormedLines] \cup {HelloHeck}
    /\ applied = NotApplied
    /\ call = NoCall
    /\ result = NoResult

\* LineDiff::from(old, new) and then apply(writer, new), on a terminal that
\* shows old with its cursor at old's cursor
DiffApply ==
    /\ ~applied.done
    /\ LET diff == calc_line_diff(pair.old, pair.new)
           run == LineDiff_apply(diff, pair.new)
       IN applied' = [done |-> TRUE, diff |-> diff, run |-> run,
                      term |-> TermReplay(TermOf(pair.old), run.bytes)]
    /\ UNCHANGED <<coreVars, obsVars, wrapVars, pair, call, result>>

NextDiff == DiffApply

SpecDiff == InitDiff /\ [][NextDiff]_vars

\* ------------------------------------------- editing a recalled line
\* Sessions on a ring of DeepDepth slots that type, recall with 0x10 and
\* commit, observed by recall: phase 1, the session's first byte was
\* select-previous and showed the previous line L; phase 2, bytes b were then
\* typed at its end (while they fit); phase 3, the line was committed; phase
\* 4, the next session's first byte was select-previous; phase 5, its second
\* byte too.
DeepInputs == {LetterA, Space, LF, CtrlP}

RecallOff == [phase |-> 0, L |-> <<>>, b |-> <<>>]

RecallNext(byte) ==
    LET cur == current_line(Bufs)
        fresh == offset = 0 /\ cur.end_index = 0 /\ last_idx >= 1
        prev == lines[(last_idx - 1) % MAX_LINES(Bufs)]
    IN IF recall.phase = 0 /\ byte = CtrlP /\ fresh /\ MAX_LINES(Bufs) >= 3
            /\ prev.cursor_index = prev.end_index
       THEN [phase |-> 1, L |-> start_to_end(prev), b |-> <<>>]
       ELSE IF recall.phase \in {1, 2} /\ byte \in Literals
               /\ Len(recall.L) + Len(recall.b) < LEN(cur)
       THEN [recall EXCEPT !.phase = 2, !.b = Append(recall.b, byte)]
       ELSE IF recall.phase = 2 /\ byte \in Terminators
       THEN [recall EXCEPT !.phase = 3]
       ELSE IF recall.phase = 3 /\ byte = CtrlP /\ fresh
       THEN [recall EXCEPT !.phase = 4]
       ELSE IF recall.phase = 4 /\ byte = CtrlP
       THEN [recall EXCEPT !.phase = 5]
       ELSE RecallOff

InitDeep ==
    /\ InitSized(Capacity, DeepDepth)
    /\ pair = NoPair
    /\ applied = NotApplied
    /\ call = NoCall
    /\ result = NoResult

DeepStart ==
    /\ StartSession
    /\ recall' = IF recall.phase = 3 THEN recall ELSE RecallOff
    /\ UNCHANGED <<committed, onlyPrev, wire>>

DeepByte(byte) ==
    /\ ~closed
    /\ (byte \in Terminators) => last_idx < DeepCommits
    /\ LoopTurn(read_byte(1, byte))
    /\ recall' = RecallNext(byte)
    /\ UNCHANGED <<committed, onlyPrev, wire>>

NextDeep ==
    \/ DeepStart
    \/ \E byte \in DeepInputs : DeepByte(byte)

SpecDeep == InitDeep /\ [][NextDeep]_vars

\* ------------------------------------------- sessions that are abandoned
\* Sessions that type, move the cursor, recall a line, and may be abandoned
\* before a line terminator: by an error (ESC ESC) or because the caller
\* drops the future of readline() while it awaits a byte.
ResumeInputs == {LetterA, Space, CtrlA, CtrlP, ESC, LF}

\* the caller drops the pending readline(): the Buffers stay as they are
Abandon ==
    /\ sess = "running"
    /\ sess' = "idle"
    /\ res' = "Dropped"
    /\ ev' = "none"
    /\ UNCHANGED <<lines, last_idx, offset, status, resByte, ret, term, closed>>
    /\ UNCHANGED <<echo, scn, wrapVars, diffVars>>

NextResume ==
    \/ StartSession /\ UNCHANGED wrapVars
    \/ \E byte \in ResumeInputs : ProcessByte(byte) /\ UNCHANGED wrapVars
    \/ Abandon

SpecResume == Init /\ [][NextResume]_vars

\* ------------------------------------------- a transport that closes
\* Sessions on a transport that delivers a few bytes and may then close.
EofInputs == {LetterA, ESC, LBracket, LF}

\* the peer closes the transport while a session is reading
Close ==
    /\ sess = "running"
    /\ ~closed
    /\ closed' = TRUE
    /\ UNCHANGED <<lines, last_idx, offset, status, sess, res, resByte, ret, term>>
    /\ UNCHANGED <<obsVars, wrapVars, diffVars>>

\* a turn of the loop in which read reports 0 bytes
ReadEof ==
    /\ closed
    /\ LoopTurn(read_byte(0, Zero))
    /\ UNCHANGED wrapVars

NextEof ==
    \/ StartSession /\ UNCHANGED wrapVars
    \/ \E byte \in EofInputs : ProcessByte(byte) /\ UNCHANGED wrapVars
    \/ Close
    \/ ReadEof

SpecEof == Init /\ [][NextEof]_vars

\* ------------------------------------- a transport with short writes
\* The calls of write that State::apply_line_diff makes for a diff it renders
\* without panicking, in order: write_caret_back and write_spaces hand over
\* one byte per call, the two slices one call each.
write_calls(line_diff, line) ==
    LET line_data == start_to_end(line)
        each(byte, n) == [i \in 1..n |-> <<byte>>]
        before ==
            IF line_diff.move_caret_before < 0
            THEN each(BS, Abs(line_diff.move_caret_before))
            ELSE IF line_diff.move_caret_before > 0
            THEN <<Slice(line_data,
                         line.cursor_index - Abs(line_diff.move_caret_before),
                         Abs(line_diff.move_caret_before))>>
            ELSE <<>>
        write ==
            IF line_diff.write_after_prefix = NoRange THEN <<>>
            ELSE <<Slice(line_data, line_diff.write_after_prefix[1],
                         line_diff.write_after_prefix[2])>>
        spaces == each(Space, line_diff.clear_after_prefix)
        after == each(BS, Abs(line_diff.move_caret_after))
    IN before \o write \o spaces \o after

\* the edit a byte asks for in state st: [b, diff], as process_byte selects it
edit_of(byte, st, b) ==
    IF st = "Ctrl"
    THEN CASE byte = KeyA -> select_prev_line(b)
           [] byte = KeyB -> select_next_line(b)
           [] byte = KeyC -> move_cursor(b, 1)
           [] OTHER -> move_cursor(b, -1)
    ELSE CASE byte \in {BS, DEL} -> delete_chars(b, 1)
           [] byte = CtrlA -> cursor_to_start(b)
           [] byte = CtrlE -> cursor_to_end(b)
           [] byte = CtrlK -> delete_to_end(b)
           [] byte = CtrlN -> select_next_line(b)
           [] byte = CtrlP -> select_prev_line(b)
           [] byte = CtrlW -> delete_word(b)
           [] OTHER -> insert_chars(b, <<byte>>)

\* Write::write on a transport that takes at most accept bytes of a call
\* (at least one of a non-empty buffer): the bytes that reach the terminal.
\* State::write_bytes drops the count write returns.
write_bytes(bytes, accept) == Take(bytes, accept)

RECURSIVE Received(_, _)
Received(calls, accept) ==
    IF calls = <<>> THEN <<>>
    ELSE write_bytes(Head(calls), accept) \o Received(Tail(calls), accept)

\* Sessions that type a letter, recall lines and commit, on a transport whose
\* write takes between 1 and Capacity bytes of each call.
ShortInputs == {LetterA, CtrlP, CtrlN, CtrlA, LF}

ShortStart ==
    /\ StartSession
    /\ wire' = WireOff
    /\ UNCHANGED <<committed, onlyPrev, recall>>

ShortByte(byte, accept) ==
    /\ ProcessByte(byte)
    /\ \E r \in {process_byte(byte, status, Bufs)} :
          wire' = IF r.kind # "Continue" \/ r.bytes = <<>> THEN WireOff
                  ELSE LET e == edit_of(byte, status, Bufs)
                       IN [sent |-> r.bytes,
                           got |-> Received(write_calls(e.diff, current_line(e.b)),
                                            accept)]
    /\ UNCHANGED <<committed, onlyPrev, recall>>

NextShort ==
    \/ ShortStart
    \/ \E byte \in ShortInputs : \E accept \in 1..Capacity : ShortByte(byte, accept)

SpecShort == Init /\ [][NextShort]_vars

\* ------------------------------------------- Line's operations alone
\* every Line<LineLen> of literal bytes with cursor <= end
LinesOfLen ==
    {LineOfLen(LineLen, bytes, c) :
       bytes \in UNION {[1..n -> Literals] : n \in 0..LineLen}, c \in 0..LineLen}
CallLines == {l \in LinesOfLen : l.cursor_index <= l.end_index}

\* the byte slices handed to insert_range
CallBytes == UNION {[1..n -> Literals] : n \in 0..MaxInsert}

\* insert_range(at, bytes), remove_range(rs..re), and insert_range(at, bytes)
\* followed by remove_range(at..at + len(bytes)); indices range one past LEN
LineCalls ==
    [op : {"insert", "round"}, line : CallLines, at : 0..(LineLen + 1), bytes : CallBytes]
    \cup {c \in [op : {"remove"}, line : CallLines,
                  rs : 0..(LineLen + 1), re : 0..(LineLen + 1)] : c.rs <= c.re}
    \cup [op : {"move", "at_cursor"}, line : CallLines,
          by : (0 - (LineLen + 1))..(LineLen + 1)]

InitLine ==
    /\ InitCore
    /\ pair = NoPair
    /\ applied = NotApplied
    /\ call \in LineCalls
    /\ result = NoResult

Insert ==
    /\ call.op = "insert"
    /\ ~result.done
    /\ result' = [done |-> TRUE, r |-> insert_range(call.line, call.at, call.bytes)]
    /\ UNCHANGED <<coreVars, obsVars, wrapVars, pair, applied, call>>

Remove ==
    /\ call.op = "remove"
    /\ ~result.done
    /\ result' = [done |-> TRUE, r |-> remove_range(call.line, call.rs, call.re)]
    /\ UNCHANGED <<coreVars, obsVars, wrapVars, pair, applied, call>>

\* insert_range, and if it returned Ok, remove_range of the inserted range
InsertThenRemove ==
    /\ call.op = "round"
    /\ ~result.done
    /\ \E ins \in {insert_range(call.line, call.at, call.bytes)} :
          result' = [done |-> TRUE,
                     r |-> IF ins.ok
                           THEN remove_range(ins.line, call.at, call.at + Len(call.bytes))
                           ELSE ins,
                     inserted |-> ins.ok]
    /\ UNCHANGED <<coreVars, obsVars, wrapVars, pair, applied, call>>

\* move_cursor(by)
MoveCursor ==
    /\ call.op = "move"
    /\ ~result.done
    /\ result' = [done |-> TRUE, r |-> move_cursor_line(call.line, call.by)]
    /\ UNCHANGED <<coreVars, obsVars, wrapVars, pair, applied, call>>

\* at_cursor(by)
AtCursor ==
    /\ call.op = "at_cursor"
    /\ ~result.done
    /\ result' = [done |-> TRUE, r |-> at_cursor(call.line, call.by)]
    /\ UNCHANGED <<coreVars, obsVars, wrapVars, pair, applied, call>>

NextLine ==
    \/ Insert
    \/ Remove
    \/ InsertThenRemove
    \/ MoveCursor
    \/ AtCursor

SpecLine == InitLine /\ [][NextLine]_vars

\* ---------------------------------------- Buffers' operations alone
\* Buffers<LineLen, 2> as sessions leave them: nothing committed yet (the
\* second slot untouched), one line committed, or two (the ring has
\* wrapped); any line in a slot that was used; offset from 0 to last_idx
CallBufs ==
    {[lines |-> [i \in 0..1 |-> IF i = 0 THEN l0 ELSE l1],
      last_idx |-> k[1], offset |-> k[2]] :
        l0 \in CallLines,
        l1 \in CallLines,
        k \in {<<0, 0>>, <<1, 0>>, <<1, 1>>, <<2, 0>>, <<2, 1>>, <<2, 2>>}}
    \ {b \in [lines : [0..1 -> CallLines], last_idx : {0}, offset : {0}] :
          b.lines[1] # DefaultLineOf(LineLen)}

\* the bytes that edit the line or move its cursor, with the protocol state
\* in which process_byte takes them for that
EditKeys ==
    {<<BS, "Char">>, <<DEL, "Char">>, <<CtrlA, "Char">>, <<CtrlE, "Char">>,
     <<CtrlK, "Char">>, <<LetterA, "Char">>, <<KeyC, "Ctrl">>, <<KeyD, "Ctrl">>}

BufCalls ==
    [op : {"delete_word", "prev", "next", "prev_next"}, b : CallBufs]
    \cup [op : {"edit"}, key : EditKeys, b : CallBufs]

InitBufs ==
    /\ InitCore
    /\ pair = NoPair
    /\ applied = NotApplied
    /\ call \in BufCalls
    /\ result = NoResult

DeleteWord ==
    /\ call.op = "delete_word"
    /\ ~result.done
    /\ result' = [done |-> TRUE, r |-> delete_word(call.b)]
    /\ UNCHANGED <<coreVars, obsVars, wrapVars, pair, applied, call>>

SelectPrev ==
    /\ call.op = "prev"
    /\ ~result.done
    /\ result' = [done |-> TRUE, r |-> select_prev_line(call.b)]
    /\ UNCHANGED <<coreVars, obsVars, wrapVars, pair, applied, call>>

SelectNext ==
    /\ call.op = "next"
    /\ ~result.done
    /\ result' = [done |-> TRUE, r |-> select_next_line(call.b)]
    /\ UNCHANGED <<coreVars, obsVars, wrapVars, pair, applied, call>>

\* select_prev_line and then select_next_line, each rendered by
\* State::apply_diff as it returns, on a terminal that showed the selected
\* line with its cursor; a panic of the first rendering ends the session
SelectPrevNext ==
    /\ call.op = "prev_next"
    /\ ~result.done
    /\ \E r1 \in {apply_diff(select_prev_line(call.b), "Char")} :
       \E r2 \in {apply_diff(select_next_line(r1.b), "Char")} :
          result' =
            [done |-> TRUE,
             r |-> IF r1.kind = "Panic" THEN r1 ELSE r2,
             term |-> TermReplay(TermOf(current_line(call.b)),
                                 IF r1.kind = "Panic" THEN r1.bytes
                                 ELSE r1.bytes \o r2.bytes)]
    /\ UNCHANGED <<coreVars, obsVars, wrapVars, pair, applied, call>>

\* State::apply_diff for the edit a byte selects: the edit on the Buffers,
\* then its diff rendered on the line that is current afterwards
Edit ==
    /\ call.op = "edit"
    /\ ~result.done
    /\ \E e \in {edit_of(call.key[1], call.key[2], call.b)} :
          result' = [done |-> TRUE, r |-> e,
                     run |-> apply_line_diff(e.diff, current_line(e.b))]
    /\ UNCHANGED <<coreVars, obsVars, wrapVars, pair, applied, call>>

NextBufs ==
    \/ Edit
    \/ DeleteWord
    \/ SelectPrev
    \/ SelectNext
    \/ SelectPrevNext

SpecBufs == InitBufs /\ [][NextBufs]_vars

\* ================================================================ claims

\* C1 (as claimed): while a session runs, after each processed byte the
\* terminal (all bytes written so far replayed) shows the selected line's
\* bytes [0,end) followed only by blanks, with its cursor at the line's cursor.
C1_TerminalInSync ==
    sess = "running" => TermShows(term, current_line(Bufs))

\* C2 (as claimed): for every pair of lines old and new, apply(diff(old, new),
\* writer, new) on a terminal showing old with its cursor at old's cursor
\* completes and leaves the terminal showing new with its cursor at new's.
C2_DiffApplyRoundTrip ==
    applied.done => (~applied.run.panic /\ TermShows(applied.term, pair.new))

\* C3 (as claimed): diff(line, line) is the empty diff and applying it writes
\* no bytes, for every cursor position.
C3_SelfDiffEmpty ==
    (applied.done /\ pair.old = pair.new) =>
        (applied.diff = EmptyDiff /\ applied.run.bytes = <<>>)

\* C3 (amended): diff(line, line) has no write range and nothing to clear;
\* its move_caret_before is end - cursor and its move_caret_after the
\* negation of that, so it is the empty diff, writing no bytes, exactly when
\* the cursor is at the end of the line.
C3_SelfDiffCaretOnly ==
    (applied.done /\ pair.old = pair.new) =>
        LET l == pair.old
            k == l.end_index - l.cursor_index
        IN /\ applied.diff = LineDiff(k, NoRange, 0, 0 - k)
           /\ (k = 0) <=> (applied.diff = EmptyDiff)
           /\ (k = 0) => (applied.run.bytes = <<>> /\ ~applied.run.panic)

C3_Witness ==
    /\ applied.done
    /\ pair.old = pair.new
    /\ pair.old.cursor_index < pair.old.end_index
    /\ applied.diff.move_caret_before > 0

\* C4: a session whose input is k <= Capacity letters or spaces followed by a
\* line terminator ends with Ok, returns exactly those k bytes and has written
\* exactly those k bytes; every session of a History does so for its own line.
C4_PlainEcho ==
    (echo.on /\ sess # "running") =>
        /\ sess = "idle"
        /\ res = "Ok"
        /\ ret = echo.typed
        /\ echo.out = echo.typed

C4_Witness ==
    /\ echo.on
    /\ sess = "idle"
    /\ res = "Ok"
    /\ Len(echo.typed) = Capacity
    /\ last_idx >= 2
    /\ lines[0].end_index > 0
    /\ ret # start_to_end(lines[0])

\* C5 (as claimed): with one committed line and a typed line in progress,
\* after select-previous, a literal byte and select-next, the selected line is
\* the line that was in progress, unmodified.
C5_InProgressSurvives ==
    scn.phase = 3 => start_to_end(current_line(Bufs)) = scn.w

\* C5 (amended): after select-previous, a literal byte and select-next, the
\* selected line is the in-progress slot and holds the recalled line with the
\* byte inserted at its cursor (the typed line is overwritten); the committed
\* entry itself is unchanged.
C5_RecalledCopyEdited ==
    scn.phase = 3 =>
        /\ offset = 0
        /\ start_to_end(current_line(Bufs)) = scn.exp
        /\ start_to_end(lines[0]) = scn.h
        /\ selected_idx(Bufs) # 0

C5_Witness ==
    /\ scn.phase = 3
    /\ sess = "running"
    /\ scn.w # scn.exp
    /\ Len(scn.exp) = Len(scn.h) + 1

\* C6 (as claimed): after more than Depth commits, a session that only
\* presses select-previous from the in-progress line is, after j presses, on
\* the j-th most recent committed line, for j up to Depth and never beyond.
C6_Wraparound ==
    (sess = "running" /\ onlyPrev /\ status = "Char" /\ last_idx > Depth
     /\ offset >= 1) =>
        /\ offset <= Depth
        /\ start_to_end(current_line(Bufs)) = committed[offset]

\* C7 (as claimed): offset <= last_idx and offset <= Depth - 1 in every state.
C7_OffsetBound ==
    offset <= last_idx /\ offset <= Depth - 1

\* C8: every slot of the ring satisfies 0 <= cursor <= end <= Capacity.
C8_LinesWellFormed ==
    \A i \in 0..(Depth - 1) :
        /\ 0 <= lines[i].cursor_index
        /\ lines[i].cursor_index <= lines[i].end_index
        /\ lines[i].end_index <= Capacity

C8_Witness ==
    /\ sess = "running"
    /\ last_idx >= 1
    /\ \E i \in 0..(Depth - 1) :
          /\ lines[i].end_index = Capacity
          /\ lines[i].cursor_index > 0
          /\ lines[i].cursor_index < lines[i].end_index
    /\ \E i \in 0..(Depth - 1) :
          lines[i].end_index > 0 /\ lines[i].end_index < Capacity

\* the bytes of the model that the claim calls literal: neither a line
\* terminator, ESC, 0x08, 0x7F, 0x01, 0x05, 0x0B, 0x0E, 0x10 nor 0x17
C9_LiteralBytes ==
    CharInputs \ (Terminators \cup {ESC, BS, DEL, CtrlA, CtrlE, CtrlK, CtrlN, CtrlP, CtrlW})

\* C9 (as claimed): in state Char every literal byte, '[' among them, is
\* inserted at the cursor of the selected line (which has room for it) and
\* the session continues without error.
C9_LiteralInserted ==
    [][\A byte \in C9_LiteralBytes :
         (status = "Char" /\ current_line(Bufs).end_index < Capacity
          /\ ProcessByte(byte)) =>
            LET l == current_line(Bufs)
            IN /\ sess' = "running"
               /\ res' = "none"
               /\ start_to_end(current_line(Bufs)') =
                      InsertedAt(start_to_end(l), l.cursor_index, byte)
               /\ current_line(Bufs)'.cursor_index = l.cursor_index + 1]_vars

\* C10: a line terminator processed in any protocol state ends the session
\* with Ok; the bytes returned are the content of the line selected at that
\* moment, last_idx has grown by exactly 1 and offset is 0.
C10_Termination ==
    [][\A byte \in Terminators :
         ProcessByte(byte) =>
            /\ sess' # "running"
            /\ res' = "Ok"
            /\ ret' = start_to_end(current_line(Bufs))
            /\ last_idx' = last_idx + 1
            /\ offset' = 0]_vars

C10_Witness ==
    /\ res = "Ok"
    /\ sess = "idle"
    /\ status = "Ctrl"
    /\ Len(ret) > 0
    /\ last_idx >= 2

\* C11 (as claimed): right after a commit returned, the selected line is the
\* new in-progress slot and it is empty (cursor = end = 0), also when the
\* ring has wrapped.
C11_CommitLeavesEmpty ==
    (sess = "idle" /\ res = "Ok") =>
        /\ offset = 0
        /\ current_line(Bufs).end_index = 0
        /\ current_line(Bufs).cursor_index = 0

\* C12 (as claimed): ESC in state Escape or Ctrl ends the session with
\* UnexpectedEscape, and every byte other than '[' in state Escape ends it
\* with UnexpectedChar carrying that byte; last_idx is unchanged.
C12_MalformedEscapeFatal ==
    [][\A byte \in AllInputs :
         (status \in {"Escape", "Ctrl"} /\ ProcessByte(byte)) =>
            /\ (byte = ESC /\ status \in {"Escape", "Ctrl"}) =>
                  (sess' = "idle" /\ res' = "UnexpectedEscape" /\ last_idx' = last_idx)
            /\ (status = "Escape" /\ byte \notin {LBracket, ESC}) =>
                  (sess' = "idle" /\ res' = "UnexpectedChar" /\ resByte' = byte
                   /\ last_idx' = last_idx)]_vars

\* C12 (amended): ESC in state Escape or Ctrl ends the session with
\* UnexpectedEscape; a byte in state Escape that is neither '[', ESC nor a
\* line terminator ends it with UnexpectedChar carrying that byte.  Neither
\* commits a line (last_idx and every slot unchanged).  A line terminator in
\* state Escape ends the session with Ok and commits.
C12_MalformedEscapeButTerminator ==
    [][\A byte \in AllInputs :
         (status \in {"Escape", "Ctrl"} /\ ProcessByte(byte)) =>
            /\ (byte = ESC /\ status \in {"Escape", "Ctrl"}) =>
                  (sess' = "idle" /\ res' = "UnexpectedEscape"
                   /\ last_idx' = last_idx /\ lines' = lines)
            /\ (status = "Escape" /\ byte \notin ({LBracket, ESC} \cup Terminators)) =>
                  (sess' = "idle" /\ res' = "UnexpectedChar" /\ resByte' = byte
                   /\ last_idx' = last_idx /\ lines' = lines)
            /\ (status = "Escape" /\ byte \in Terminators) =>
                  (res' = "Ok" /\ last_idx' = last_idx + 1)]_vars

C12_Witness ==
    /\ sess = "idle"
    /\ res = "UnexpectedChar"
    /\ resByte = KeyC
    /\ status = "Escape"
    /\ last_idx >= 1
    /\ current_line(Bufs).end_index > 0

\* C13 (as claimed): in state Ctrl, 'A' leaves the same History state and
\* writes the same bytes as 0x10 does in state Char, 'B' the same as 0x0E, 'C'
\* moves the cursor of the selected line one right and 'D' one left, clamped
\* to [0, end]; after each the session goes on in state Char.
C13_ArrowKeys ==
    [][\A byte \in {KeyA, KeyB, KeyC, KeyD} :
         (status = "Ctrl" /\ ProcessByte(byte)) =>
            LET arrow == process_byte(byte, "Ctrl", Bufs)
                code == process_byte(IF byte = KeyA THEN CtrlP ELSE CtrlN, "Char", Bufs)
                l == current_line(Bufs)
                to == IF byte = KeyC THEN Min(l.cursor_index + 1, l.end_index)
                      ELSE Max(l.cursor_index - 1, 0)
            IN /\ sess' = "running"
               /\ res' = "none"
               /\ status' = "Char"
               /\ (byte \in {KeyA, KeyB}) =>
                     (Bufs' = code.b /\ arrow.bytes = code.bytes /\ code.kind = "Continue")
               /\ (byte \in {KeyC, KeyD}) =>
                     (Bufs' = WithCurrent(Bufs, set_cursor_index(l, to)))]_vars

\* C14 (as claimed): in state Ctrl every byte other than 'A', 'B', 'C', 'D'
\* leaves the lines, the selection and the output unchanged, raises no error
\* and returns the protocol state to Char.
C14_UnknownCtrlIgnored ==
    [][\A byte \in CtrlInputs \ {KeyA, KeyB, KeyC, KeyD} :
         (status = "Ctrl" /\ ProcessByte(byte)) =>
            /\ sess' = "running"
            /\ res' = "none"
            /\ status' = "Char"
            /\ Bufs' = Bufs
            /\ term' = term
            /\ process_byte(byte, status, Bufs).bytes = <<>>]_vars

\* C14 (amended): in state Ctrl every byte other than 'A', 'B', 'C', 'D', ESC,
\* '[' and the line terminators is ignored as claimed.  ESC ends the session
\* with UnexpectedEscape and '[' with UnexpectedCtrl (lines and selection
\* unchanged, nothing written); a line terminator commits the line.
C14_UnknownCtrlIgnoredButFour ==
    [][\A byte \in CtrlInputs \ {KeyA, KeyB, KeyC, KeyD} :
         (status = "Ctrl" /\ ProcessByte(byte)) =>
            /\ term' = term
            /\ process_byte(byte, status, Bufs).bytes = <<>>
            /\ (byte \in UnknownCtrlBytes) =>
                  (sess' = "running" /\ res' = "none" /\ status' = "Char" /\ Bufs' = Bufs)
            /\ (byte = ESC) =>
                  (sess' = "idle" /\ res' = "UnexpectedEscape" /\ Bufs' = Bufs)
            /\ (byte = LBracket) =>
                  (sess' = "idle" /\ res' = "UnexpectedCtrl" /\ Bufs' = Bufs)
            /\ (byte \in Terminators) =>
                  (res' = "Ok" /\ last_idx' = last_idx + 1)]_vars

C14_Witness ==
    /\ ev = "ignored"
    /\ sess = "running"
    /\ status = "Char"
    /\ offset > 0
    /\ current_line(Bufs).end_index > 0
    /\ current_line(Bufs).cursor_index < current_line(Bufs).end_index

\* C15 (as claimed): a literal byte arriving in state Char while the line being
\* edited holds Capacity bytes ends the session with the error of the failed
\* insert; the byte is not dropped silently and the lines are unchanged.
C15_FullLineReported ==
    [][\A byte \in Literals :
         (status = "Char" /\ current_line(Bufs).end_index = LEN(current_line(Bufs))
          /\ ProcessByte(byte)) =>
            /\ sess' = "idle"
            /\ res' \in {"BufferFullError", "OutOfBounds"}
            /\ lines' = lines]_vars

\* C16 (as claimed): a read that reports 0 bytes before a line terminator was
\* seen ends the session with UnexpectedEof, and inserts nothing into a line.
C16_EofEndsSession ==
    [][ReadEof => (sess' = "idle" /\ res' = "UnexpectedEof" /\ lines' = lines)]_vars

\* C17: a select-previous key with offset = last_idx and a select-next key
\* with offset = 0 leave offset, last_idx and every slot (content, cursor,
\* end) unchanged, and the session gets no error.
C17_OutOfRangeNavigation ==
    [][\A byte \in {CtrlP, CtrlN, KeyA, KeyB} :
         /\ (IsSelectPrev(byte) /\ offset = last_idx /\ ProcessByte(byte)) =>
               (Bufs' = Bufs /\ select_prev_line(Bufs).b = Bufs /\ res' = "none")
         /\ (IsSelectNext(byte) /\ offset = 0 /\ ProcessByte(byte)) =>
               (Bufs' = Bufs /\ select_next_line(Bufs).b = Bufs /\ res' = "none")]_vars

C17_Witness ==
    /\ ev = "prev_at_oldest"
    /\ last_idx >= 1
    /\ offset = last_idx
    /\ current_line(Bufs).end_index > 0
    /\ sess = "running"

C19_Drop(s, n) == SubSeq(s, n + 1, Len(s))

\* the cursor a cursor-move byte asks for in line l
C19_Target(byte, l) ==
    CASE byte = CtrlA -> 0
      [] byte = CtrlE -> l.end_index
      [] byte = KeyC -> Min(l.cursor_index + 1, l.end_index)
      [] OTHER -> Max(l.cursor_index - 1, 0)

\* line n is the result of the content edit byte on the line h
C19_Edited(byte, h, n) ==
    LET hs == start_to_end(h)
        ns == start_to_end(n)
        c == h.cursor_index
    IN CASE byte \in Literals ->
              IF h.end_index < LEN(h)
              THEN ns = InsertedAt(hs, c, byte) /\ n.cursor_index = c + 1
              ELSE ns = hs /\ n.cursor_index = c
         [] byte \in {BS, DEL} ->
              IF c > 0
              THEN ns = Take(hs, c - 1) \o C19_Drop(hs, c) /\ n.cursor_index = c - 1
              ELSE ns = hs /\ n.cursor_index = c
         [] byte = CtrlK -> ns = Take(hs, c) /\ n.cursor_index = c
         [] OTHER -> /\ n.cursor_index <= c
                     /\ ns = Take(hs, n.cursor_index) \o C19_Drop(hs, c)

\* C19 (as claimed): a content edit or a cursor move that arrives while a
\* history entry is selected (offset > 0) leaves offset = 0 and the entry that
\* was selected with its former content, end and cursor.
C19_EditsLeaveEntry ==
    [][\A byte \in AllInputs :
         (offset > 0 /\ (IsContentEdit(byte) \/ IsCursorMove(byte))
          /\ ProcessByte(byte)) =>
            LET sel == selected_idx(Bufs)
            IN /\ offset' = 0
               /\ start_to_end(lines'[sel]) = start_to_end(lines[sel])
               /\ lines'[sel].cursor_index = lines[sel].cursor_index]_vars

\* C19 (amended): with offset > 0, the content edits (insert_chars,
\* delete_chars, delete_word, delete_to_end) leave offset = 0 and the
\* in-progress slot holding the edit applied to a copy of the selected entry
\* (content and cursor); every other slot is unchanged, so the entry keeps its
\* content, end and cursor whenever it is not the in-progress slot itself.
\* The cursor moves (move_cursor, cursor_to_start, cursor_to_end) act in
\* place: offset is unchanged and only the cursor of the selected entry
\* changes.
C19_ContentEditsCopyMovesInPlace ==
    [][\A byte \in AllInputs :
         (offset > 0 /\ (IsContentEdit(byte) \/ IsCursorMove(byte))
          /\ ProcessByte(byte)) =>
            LET sel == selected_idx(Bufs)
                cur == last_idx % MAX_LINES(Bufs)
            IN /\ IsContentEdit(byte) =>
                    /\ offset' = 0
                    /\ last_idx' = last_idx
                    /\ C19_Edited(byte, lines[sel], lines'[cur])
                    /\ \A i \in DOMAIN lines : i # cur => lines'[i] = lines[i]
               /\ IsCursorMove(byte) =>
                    /\ offset' = offset
                    /\ last_idx' = last_idx
                    /\ lines' = [lines EXCEPT ![sel] =
                                   set_cursor_index(lines[sel], C19_Target(byte, lines[sel]))]]_vars

C19_Witness ==
    /\ ev = "edit_recalled"
    /\ offset = 0
    /\ last_idx >= 1
    /\ selected_idx(Bufs) # 0
    /\ lines[0].end_index > 0
    /\ start_to_end(current_line(Bufs)) # start_to_end(lines[0])

\* C20: on a ring of at least 3 slots, recalling the previous line L with
\* select-previous, typing bytes b at its end and pressing Enter returns L b;
\* in the next session one select-previous shows L b and a second one shows L
\* unchanged.
C20_EditedRecallKeepsEntry ==
    /\ (recall.phase = 3 /\ sess = "idle") => (res = "Ok" /\ ret = recall.L \o recall.b)
    /\ (recall.phase = 4) =>
          (offset = 1 /\ start_to_end(current_line(Bufs)) = recall.L \o recall.b)
    /\ (recall.phase = 5) =>
          (offset = 2 /\ start_to_end(current_line(Bufs)) = recall.L)

C20_Witness ==
    /\ recall.phase = 5
    /\ sess = "running"
    /\ Len(recall.L) >= 1
    /\ Len(recall.b) >= 1
    /\ last_idx > MAX_LINES(Bufs)

\* C21 (as claimed): the bytes the terminal receives in a turn are the bytes
\* the editor offered to the writer in that turn, also when write takes fewer
\* bytes of a call than it was offered.
C21_ShortWritesCompleted ==
    wire.got = wire.sent

\* C22: for a line with at <= end and end + len(bytes) <= Capacity,
\* insert(at, bytes) returns Ok(len(bytes)); afterwards end has grown by
\* len(bytes), the bytes [at, at + len) are bytes, the bytes [0, at) are as
\* before, the former bytes [at, end) follow in order at [at + len, end'),
\* and the cursor has advanced by len(bytes) exactly when at <= cursor.
C22_InsertPostcondition ==
    (result.done /\ call.op = "insert"
     /\ call.at <= call.line.end_index
     /\ call.line.end_index + Len(call.bytes) <= LEN(call.line)) =>
        LET old == call.line
            new == result.r.line
            n == Len(call.bytes)
            os == start_to_end(old)
            ns == start_to_end(new)
        IN /\ result.r.ok
           /\ result.r.n = n
           /\ new.end_index = old.end_index + n
           /\ Slice(ns, call.at, call.at + n) = call.bytes
           /\ Slice(ns, 0, call.at) = Slice(os, 0, call.at)
           /\ Slice(ns, call.at + n, new.end_index) = Slice(os, call.at, old.end_index)
           /\ new.cursor_index = IF call.at <= old.cursor_index
                                 THEN old.cursor_index + n ELSE old.cursor_index

C22_Witness ==
    /\ result.done
    /\ call.op = "insert"
    /\ result.r.ok
    /\ call.at > call.line.cursor_index
    /\ call.at < call.line.end_index
    /\ Len(call.bytes) >= 1
    /\ call.bytes[1] # call.line.data[call.at]

\* C23 (as claimed): insert(at, bytes) returns OutOfBounds whenever
\* end + len(bytes) > Capacity or at > end, and then the line's content,
\* cursor and end are as before the call.
C23_InsertRejection ==
    (result.done /\ call.op = "insert"
     /\ (call.line.end_index + Len(call.bytes) > LEN(call.line)
         \/ call.at > call.line.end_index)) =>
        /\ ~result.r.ok
        /\ result.r.line = call.line

\* C24: remove(rs..re), rs <= re, returns OutOfBounds and changes nothing when
\* re > end; otherwise it returns Ok(re - rs), end shrinks by re - rs, the
\* bytes [0, rs) are as before and the former bytes [re, end) follow them in
\* order, and the cursor moves left by re - rs if re <= cursor, goes to rs if
\* rs <= cursor < re, and stays if cursor < rs.
C24_RemovePostcondition ==
    (result.done /\ call.op = "remove") =>
        LET old == call.line
            new == result.r.line
            n == call.re - call.rs
            os == start_to_end(old)
            ns == start_to_end(new)
        IN IF call.re > old.end_index
           THEN ~result.r.ok /\ new = old
           ELSE /\ result.r.ok
                /\ result.r.n = n
                /\ new.end_index = old.end_index - n
                /\ ns = Slice(os, 0, call.rs) \o Slice(os, call.re, old.end_index)
                /\ new.cursor_index =
                      IF call.re <= old.cursor_index THEN old.cursor_index - n
                      ELSE IF call.rs <= old.cursor_index THEN call.rs
                      ELSE old.cursor_index

C24_Witness ==
    /\ result.done
    /\ call.op = "remove"
    /\ result.r.ok
    /\ 0 < call.rs
    /\ call.rs <= call.line.cursor_index
    /\ call.line.cursor_index < call.re
    /\ call.re < call.line.end_index
    /\ call.line.data[call.rs] # call.line.data[call.re]

\* C25: for every line, every at <= end and every byte string b that fits,
\* insert(at, b) followed by remove(at .. at + len(b)) leaves the content,
\* the end and the cursor of the line as they were.
C25_InsertRemoveRoundTrip ==
    (result.done /\ call.op = "round"
     /\ call.at <= call.line.end_index
     /\ call.line.end_index + Len(call.bytes) <= LEN(call.line)) =>
        /\ result.inserted
        /\ result.r.ok
        /\ start_to_end(result.r.line) = start_to_end(call.line)
        /\ result.r.line.end_index = call.line.end_index
        /\ result.r.line.cursor_index = call.line.cursor_index

C25_Witness ==
    /\ result.done
    /\ call.op = "round"
    /\ result.inserted
    /\ result.r.ok
    /\ call.at < call.line.end_index
    /\ call.line.cursor_index >= call.at
    /\ Len(call.bytes) = MaxInsert
    /\ result.r.line.data # call.line.data

\* the length of the longest common prefix of the byte sequences s and t
C26_CommonPrefix(s, t) ==
    LET same == {k \in 0..Min(Len(s), Len(t)) : SubSeq(s, 1, k) = SubSeq(t, 1, k)}
    IN CHOOSE k \in same : \A j \in same : j <= k

\* C26: for all lines old and new with common prefix length p, the diff has
\* move_caret_before = p - old.cursor (max(0, old.cursor - p) backspaces
\* before the write), the write range p .. new.end, absent when empty,
\* max(0, old.end - new.end) blanks, and afterwards the backspaces from the
\* position reached to new.cursor; for "hello" and "heck" with both cursors
\* at 0 it is: none before, write 2..4, one blank, 5 backspaces.
C26_DiffRecord ==
    applied.done =>
        LET old == pair.old
            new == pair.new
            p == C26_CommonPrefix(start_to_end(old), start_to_end(new))
            d == applied.diff
            reached == p + RangeLen(d.write_after_prefix) + d.clear_after_prefix
        IN /\ d.move_caret_before = p - old.cursor_index
           /\ Max(0, 0 - d.move_caret_before) = Max(0, old.cursor_index - p)
           /\ d.write_after_prefix =
                 IF p < new.end_index THEN <<p, new.end_index>> ELSE NoRange
           /\ d.clear_after_prefix = Max(0, old.end_index - new.end_index)
           /\ d.move_caret_after <= 0
           /\ 0 - d.move_caret_after = reached - new.cursor_index
           /\ (pair = HelloHeck) => d = LineDiff(2, <<2, 4>>, 1, -5)

C26_Witness ==
    /\ applied.done
    /\ pair = HelloHeck
    /\ applied.diff.move_caret_after = -5

\* where the whitespace bytes that end at position c of s begin
C27_SpacesStart(s, c) ==
    CHOOSE j \in 0..c :
        /\ \A i \in (j + 1)..c : is_ascii_whitespace(s[i])
        /\ j = 0 \/ ~is_ascii_whitespace(s[j])

\* where the word before those whitespace bytes begins
C27_WordStart(s, c) ==
    LET j == C27_SpacesStart(s, c)
    IN CHOOSE w \in 0..j :
           /\ \A i \in (w + 1)..j : ~is_ascii_whitespace(s[i])
           /\ w = 0 \/ is_ascii_whitespace(s[w])

\* C27: delete_word removes exactly the bytes [w, c) of the selected line,
\* c its cursor and w the start of the word before it (back over whitespace,
\* then over non-whitespace, stopping at 0); the bytes before w and from c on
\* are kept in order and the cursor ends at w; with c = 0 nothing changes.
\* The diff is c - w backspaces, the bytes after the cursor rewritten, c - w
\* blanks, then backspaces back to w.
C27_WordDelete ==
    (result.done /\ call.op = "delete_word") =>
        LET l == current_line(call.b)
            n == current_line(result.r.b)
            s == start_to_end(l)
            c == l.cursor_index
            w == C27_WordStart(s, c)
            after == l.end_index - c
        IN /\ start_to_end(n) = SubSeq(s, 1, w) \o SubSeq(s, c + 1, Len(s))
           /\ n.cursor_index = w
           /\ (c = 0) => (w = 0 /\ result.r.diff = EmptyDiff)
           /\ (c > 0) =>
                 /\ w < c
                 /\ result.r.diff =
                       LineDiff(0 - (c - w),
                                IF after = 0 THEN NoRange ELSE <<w, w + after>>,
                                c - w,
                                0 - ((c - w) + after))

C27_Witness ==
    /\ result.done
    /\ call.op = "delete_word"
    /\ call.b.offset = 1
    /\ LET l == current_line(call.b)
       IN /\ l.cursor_index = 2
          /\ l.end_index = 3
          /\ l.data[0] = LetterA
          /\ l.data[1] = Space
          /\ current_line(result.r.b).cursor_index = 0

\* C28: select_prev_line and select_next_line, from any state, change at
\* most offset (by one): last_idx and the content, end and cursor of every
\* slot are as before.
C28_NavigationKeepsLines ==
    (result.done /\ call.op \in {"prev", "next"}) =>
        /\ result.r.b.lines = call.b.lines
        /\ result.r.b.last_idx = call.b.last_idx
        /\ (call.op = "prev") =>
              result.r.b.offset =
                  IF call.b.offset < call.b.last_idx THEN call.b.offset + 1
                  ELSE call.b.offset
        /\ (call.op = "next") =>
              result.r.b.offset =
                  IF call.b.offset > 0 THEN call.b.offset - 1 ELSE call.b.offset

C28_Witness ==
    /\ result.done
    /\ call.op = "next"
    /\ call.b.offset = 1
    /\ call.b.last_idx = 2
    /\ result.r.b.offset = 0
    /\ call.b.lines[0].end_index > 0
    /\ call.b.lines[1].end_index > 0
    /\ start_to_end(call.b.lines[0]) # start_to_end(call.b.lines[1])

\* C30 (as claimed): when select_previous moves the selection (offset <
\* last_idx), a select_next right after it restores the offset and the
\* selected line with its content and cursor, every slot being unchanged, and
\* the bytes written for the two diffs leave the terminal showing what it
\* showed before.
C30_PrevNextRoundTrip ==
    (result.done /\ call.op = "prev_next" /\ call.b.offset < call.b.last_idx) =>
        /\ result.r.kind = "Continue"
        /\ result.r.b = call.b
        /\ result.term = TermOf(current_line(call.b))

\* C29 (as claimed): in every step of every session, a slot that holds a
\* retained committed line (it is not the in-progress slot last_idx mod
\* MAX_LINES and a commit has filled it) keeps its bytes and its end, unless
\* the step is a commit that makes it the in-progress slot.
C29_CommittedImmutable ==
    [][\A i \in DOMAIN lines :
         (i # last_idx % MAX_LINES(Bufs) /\ i < last_idx
          /\ i # last_idx' % MAX_LINES(Bufs)) =>
            /\ lines'[i].end_index = lines[i].end_index
            /\ start_to_end(lines'[i]) = start_to_end(lines[i])]_vars

\* C31 (as claimed): a cursor move to the right by k >= 1 (ESC [ C, or Ctrl-E
\* with cursor < end) writes exactly the k bytes of the line between the old
\* and the new cursor, no backspace and no blank besides, and leaves the
\* content unchanged.
C31_ForwardMoveRewrites ==
    (result.done /\ call.op = "edit" /\ call.key[1] \in {KeyC, CtrlE}
     /\ current_line(call.b).cursor_index < current_line(call.b).end_index) =>
        LET old == current_line(call.b)
            new == current_line(result.r.b)
        IN /\ new.cursor_index > old.cursor_index
           /\ start_to_end(new) = start_to_end(old)
           /\ ~result.run.panic
           /\ result.run.bytes =
                 Slice(start_to_end(old), old.cursor_index, new.cursor_index)

\* C32: in state Char, 0x08 or 0x7F with cursor c > 0 removes exactly the
\* byte at c - 1 (cursor c - 1, end one less, the other bytes in order) and
\* writes one backspace, the bytes after the cursor, one blank, then
\* 1 + (bytes after the cursor) backspaces; with c = 0 the line is unchanged
\* and nothing is written.
C32_Backspace ==
    (result.done /\ call.op = "edit" /\ call.key[1] \in {BS, DEL}) =>
        LET old == current_line(call.b)
            new == current_line(result.r.b)
            s == start_to_end(old)
            c == old.cursor_index
            after == old.end_index - c
        IN /\ ~result.run.panic
           /\ (c > 0) =>
                 /\ start_to_end(new) = SubSeq(s, 1, c - 1) \o SubSeq(s, c + 1, Len(s))
                 /\ new.cursor_index = c - 1
                 /\ new.end_index = old.end_index - 1
                 /\ result.run.bytes =
                       <<BS>> \o SubSeq(s, c + 1, Len(s)) \o <<Space>>
                       \o Repeat(BS, 1 + after)
           /\ (c = 0) =>
                 /\ start_to_end(new) = s
                 /\ new.cursor_index = 0
                 /\ new.end_index = old.end_index
                 /\ result.run.bytes = <<>>

C32_Witness ==
    /\ result.done
    /\ call.op = "edit"
    /\ call.key[1] = DEL
    /\ call.b.offset = 1
    /\ current_line(call.b).cursor_index = 2
    /\ current_line(call.b).end_index = 3
    /\ current_line(call.b).data[1] # current_line(call.b).data[2]
    /\ Len(result.run.bytes) = 5

\* C33: Ctrl-K with cursor c and end e sets end to c and keeps the bytes
\* [0, c) and the cursor; its diff has no caret move before, no write, e - c
\* blanks and e - c backspaces afterwards (the empty diff when c = e).
C33_DeleteToEnd ==
    (result.done /\ call.op = "edit" /\ call.key[1] = CtrlK) =>
        LET old == current_line(call.b)
            new == current_line(result.r.b)
            c == old.cursor_index
            e == old.end_index
        IN /\ new.end_index = c
           /\ new.cursor_index = c
           /\ start_to_end(new) = SubSeq(start_to_end(old), 1, c)
           /\ result.r.diff = LineDiff(0, NoRange, e - c, 0 - (e - c))
           /\ (c = e) => result.r.diff = EmptyDiff

C33_Witness ==
    /\ result.done
    /\ call.op = "edit"
    /\ call.key[1] = CtrlK
    /\ call.b.offset = 1
    /\ current_line(call.b).cursor_index = 1
    /\ current_line(call.b).end_index = 3
    /\ result.r.diff.clear_after_prefix = 2
    /\ result.r.b.offset = 0

\* C34: move_cursor(delta) sets the cursor to cursor + delta clamped to
\* [0, end], leaves content and end unchanged, and returns the new cursor
\* minus the old one (smaller in magnitude than delta at a boundary).
C34_MoveCursorClamps ==
    (result.done /\ call.op = "move") =>
        LET old == call.line
            new == result.r.line
            want == old.cursor_index + call.by
            clamped == IF want < 0 THEN 0
                       ELSE IF want > old.end_index THEN old.end_index ELSE want
            abs(n) == IF n < 0 THEN 0 - n ELSE n
        IN /\ new.cursor_index = clamped
           /\ new.data = old.data
           /\ new.end_index = old.end_index
           /\ result.r.moved = new.cursor_index - old.cursor_index
           /\ (want # clamped) => abs(result.r.moved) < abs(call.by)
           /\ (want = clamped) => result.r.moved = call.by

C34_Witness ==
    /\ result.done
    /\ call.op = "move"
    /\ call.line.cursor_index = 1
    /\ call.line.end_index = 2
    /\ call.by = 3
    /\ result.r.moved = 1
    /\ result.r.line.cursor_index = 2

\* C35: at_cursor(offset) returns the byte stored at index cursor + offset
\* whenever 0 <= cursor + offset <= end and None otherwise, for every line
\* including a full one, and never reads outside the buffer.
C35_AtCursorInBounds ==
    (result.done /\ call.op = "at_cursor") =>
        LET idx == call.line.cursor_index + call.by
        IN /\ result.r # PanicByte
           /\ (0 <= idx /\ idx <= call.line.end_index) =>
                 (idx \in DOMAIN call.line.data /\ result.r = call.line.data[idx])
           /\ (idx < 0 \/ idx > call.line.end_index) => result.r = NoneByte

\* C36: every diff the program produces has move_caret_after <= 0: those of
\* calc_line_diff for all lines old and new with cursor <= end (history
\* navigation), and those built by insert_chars, delete_chars, delete_word,
\* delete_to_end and move_cursor; the panic of apply is unreachable.
C36_CaretAfterNotPositive ==
    (result.done /\ call.op \in {"edit", "delete_word", "prev", "next"}) =>
        /\ result.r.diff.move_caret_after <= 0
        /\ (call.op \in {"prev", "next"} /\ result.r.diff # EmptyDiff) =>
              \E old \in {current_line(call.b)} :
              \E new \in {current_line(result.r.b)} :
                 /\ result.r.diff = calc_line_diff(old, new)
                 /\ result.r.diff.move_caret_after =
                       new.cursor_index
                       - (IF old.end_index > new.end_index
                          THEN old.end_index ELSE new.end_index)

C36_Witness ==
    /\ result.done
    /\ call.op = "prev"
    /\ result.r.b.offset = 1
    /\ result.r.diff.move_caret_before > 0
    /\ result.r.diff.write_after_prefix = NoRange
    /\ result.r.diff.move_caret_after = 0
    /\ current_line(result.r.b).cursor_index > current_line(call.b).cursor_index

\* ------------------------------------------- sessions fed arbitrary bytes
\* Sessions whose transport may deliver any u8, one above 0x7F included.
HighByte == 255
AbortInputs == {LetterA, HighByte, CtrlA, CtrlP, LF}

\* a turn of the loop on a byte of AbortInputs, whatever the status
AnyByte(byte) ==
    /\ ~closed
    /\ (byte \in Terminators) => last_idx < MaxCommits
    /\ LoopTurn(read_byte(1, byte))

NextAbort ==
    \/ StartSession /\ UNCHANGED wrapVars
    \/ \E byte \in AbortInputs : AnyByte(byte) /\ UNCHANGED wrapVars

SpecAbort == Init /\ [][NextAbort]_vars

\* C37: no abort on any input: over any sequence of input bytes and any
\* number of sessions, processing never indexes or slices out of range,
\* never underflows an unsigned subtraction and never panics when producing
\* the session's return value.
C37_NoAbort == sess # "panicked"

====
